---- MODULE Spec2Model ----
(***************************************************************************)
(* A model of the simulation core of game-rhinoceros (src/main.go): the    *)
(* per-tick GameRunner.update (gauge and rush, enemy spawn, collision and  *)
(* scoring, pruning, depth sort) and the Game.Update mode machine          *)
(* (Title, Playing, GameOver).                                             *)
(*                                                                         *)
(* Horizontal lengths are kept in half pixels (Px(n) = 2n) so that the     *)
(* speeds 1.5, 2.5 and 7.5 of the source are integers, vertical lengths in *)
(* 64ths of a pixel (Py(n) = 64n).  Sound, drawing and telemetry           *)
(* payloads are outside the model; random draws are inputs of the actions. *)
(***************************************************************************)
EXTENDS Integers, Sequences, FiniteSets, TLC

VARIABLES
    runner,     \* the active GameRunner (Game.runner), a record of its fields
    touches,    \* the touch list handed to update: Game.touches for real input
    mode,       \* Game.mode
    modeTicks,  \* Game.modeTicks
    highScore,  \* Game.highScore
    sim,        \* Game.touchSimulation: the remaining script of the demo
    playID,     \* Game.playID, numbered in order of generation
    log,        \* the lifecycle events sent to the telemetry sink, in order
    env         \* bookkeeping of the environment: which inputs it may still give

vars == <<runner, touches, mode, modeTicks, highScore, sim, playID, log, env>>

----------------------------------------------------------------------------
(* Program constants (src/main.go:31-44 and the literals of update).       *)

screenWidth == 640
screenHeight == 480
rhinoX == 170
rhinoY == 370
rhinoR == 10
enemyR == 8
gageMax == 300
\* rhinoSpeed = 2.5, rhinoRushSpeed = 6 and the enemies' own 1.5, in half pixels
rhinoSpeed2 == 5
rhinoRushSpeed2 == 12
enemyBaseSpeed2 == 3
\* no enemy spawns until ticks > 120
spawnAfterTicks == 120
\* enemies spawn at screenWidth + 50
spawnMarginX == 50
\* enemies are kept while pos.Y < screenHeight + 100
fallMarginY == 100
\* the GameOver grace period: modeTicks > 60
graceTicks == 60
\* lifetimes handed to the effect constructors
splashTicks == 15
gainTicks == 60
hitSplashTicks == 999
\* the score step: gain = 10 * hitCountInRush
gainUnit == 10
\* a rush splash every 10th gauge value
splashEvery == 10
\* the impulse of a hit: (5 + 10u, -(10 + 20u)) for draws u in [0, 1)
hitVxMin == 5
hitVxSpan == 10
hitVyMin == 10
hitVySpan == 20
\* the waits of the demo script: 30 + random.Int()%60 and 30 + random.Int()%30
simWaitMin == 30
simWaitSpan == 60
simHoldMin == 30
simHoldSpan == 30

Px(n) == 2 * n

\* vertical lengths are kept in 64ths of a pixel, the grid of the vertical
\* impulses drawn below
Py(n) == 64 * n

----------------------------------------------------------------------------
(* Bounds of the model.                                                    *)

\* the longest touch list handed to update
MaxTouches == 2
\* update is not called on a runner whose ticks reached MaxTicks
MaxTicks == 316
\* the loops of newGameRunner create 99 trees, 99 weeds and 20 clouds
initTrees == 1
initWeeds == 1
initClouds == 1
\* the player touches the screen at most MaxPresses times per runner
MaxPresses == 2
\* the tapping player lets go before the gauge exceeds MaxCharge
MaxCharge == 2
\* the enemies that spawn on one runner, all within the first SpawnWindow
\* ticks that allow a spawn
MaxSpawns == 2
SpawnWindow == 6
\* update calls made on a runner after it is game over
MaxIdleCalls == 2
\* the background objects listed at the start of a tick before one scrolls off
MaxObjects == 4
\* the plays of one process run: initialize runs at most MaxPlays times
MaxPlays == 2
\* the touches the player of a whole game begins per visit of a mode, and
\* the gauge up to which that player holds
GamePresses == 1
GameCharge == 1
\* the player starts a play on the first of every StartEvery ticks of Title
StartEvery == 250

----------------------------------------------------------------------------
(* touchutil: a touch is just touched, held, or just released.             *)

AnyTouchesJustTouched(ts) == \E i \in 1..Len(ts) : ts[i] = "JT"

AnyTouchesActive(ts) == \E i \in 1..Len(ts) : ts[i] # "JR"

AllTouchesJustReleased(ts) == Len(ts) > 0 /\ \A i \in 1..Len(ts) : ts[i] = "JR"

----------------------------------------------------------------------------
(* Effects (effectutil): a kind, the remaining lifetime and, for a gain    *)
(* text, the gain it shows.                                                *)

NewSplashEffect(ttl) == [kind |-> "splash", ttl |-> ttl, gain |-> 0]

NewGainEffect(ttl, gain) == [kind |-> "gain", ttl |-> ttl, gain |-> gain]

EffectUpdate(f) == [f EXCEPT !.ttl = f.ttl - 1]

EffectFinished(f) == f.ttl <= 0

----------------------------------------------------------------------------
(* Enemy (src/main.go:87-112).  hitV is meaningful only once hit is set.   *)

NewEnemy ==
    [ticks |-> 0,
     x |-> Px(screenWidth + spawnMarginX), y |-> Py(rhinoY),
     px |-> Px(screenWidth + spawnMarginX), py |-> Py(rhinoY),
     hvx |-> 0, hvy |-> 0, hit |-> FALSE]

\* the leftward step of an un-hit enemy: 1.5 plus the rhino's speed
EnemySpeed(rush) ==
    enemyBaseSpeed2 + (IF rush THEN rhinoRushSpeed2 ELSE rhinoSpeed2)

\* variant: the ballistic step without gravity
EnemyFall_NoGravity(e) == [e EXCEPT !.x = e.x + e.hvx, !.y = e.y + e.hvy]

\* the ballistic step of a hit enemy: move by hitV, then hitV.Y grows by 1
EnemyFall(e) ==
    [e EXCEPT !.x = e.x + e.hvx, !.y = e.y + e.hvy, !.hvy = e.hvy + Py(1)]

\* Enemy.update, reading the runner's rush flag
EnemyUpdate(e, rush) ==
    LET e1 == [e EXCEPT !.ticks = e.ticks + 1]
    IN  IF ~e1.hit
        THEN [e1 EXCEPT !.px = e1.x, !.py = e1.y, !.x = e1.x - EnemySpeed(rush)]
        ELSE EnemyFall(e1)

----------------------------------------------------------------------------
(* mathutil.CapsulesCollide for the call of update: the player capsule is  *)
(* the point (rhinoX, rhinoY) with radius rhinoR, the enemy capsule is the *)
(* segment prevPos -> pos with radius enemyR.  The segment of an un-hit    *)
(* enemy is horizontal, so the distance of the point to it is taken along  *)
(* X inside the segment's span and to the nearer end outside it.           *)

Abs(n) == IF n < 0 THEN -n ELSE n

Min(a, b) == IF a < b THEN a ELSE b

SegmentDistX(e) ==
    LET lo == Min(e.x, e.px)
        hi == IF e.x < e.px THEN e.px ELSE e.x
    IN  IF lo <= Px(rhinoX) /\ Px(rhinoX) <= hi THEN 0
        ELSE Min(Abs(lo - Px(rhinoX)), Abs(hi - Px(rhinoX)))

CapsulesCollide(e) ==
    LET dx == SegmentDistX(e)
        dy == Abs(e.py - Py(rhinoY))
        R  == rhinoR + enemyR
    IN  /\ dx <= Px(R) /\ dy <= Py(R)
        /\ (Py(1) * dx) * (Py(1) * dx) + (Px(1) * dy) * (Px(1) * dy)
             <= (Px(1) * Py(R)) * (Px(1) * Py(R))

----------------------------------------------------------------------------
(* BackgroundObject (src/main.go:128-143, 188-216): the type and the world *)
(* Z.  The world X is read only by the off-screen test of update, through  *)
(* the projection of mathutil; the outcome of that test is an input.       *)

NewObject(typ, z) == [typ |-> typ, z |-> z]

\* sort.Slice(objects, pos.Z descending), as an insertion sort
RECURSIVE InsertByZ(_, _)
InsertByZ(o, s) ==
    IF s = <<>> THEN <<o>>
    ELSE IF o.z > Head(s).z THEN <<o>> \o s
         ELSE <<Head(s)>> \o InsertByZ(o, Tail(s))

RECURSIVE SortByZ(_)
SortByZ(s) == IF s = <<>> THEN <<>> ELSE InsertByZ(Head(s), SortByZ(Tail(s)))

----------------------------------------------------------------------------
(* GameRunner (src/main.go:173-186) and its update (src/main.go:218-403).  *)
(* A runner is the record of its fields.  The random draws of one update   *)
(* are its input rnd:                                                      *)
(*   enemy      random.Int()%60 == 0 of the enemy spawn                    *)
(*   tree, cloud  the world Z of the tree / cloud spawned, 0 when the      *)
(*              1-in-60 draw misses                                        *)
(*   weed       the world Z of the weed spawned on every tick              *)
(*   hitV       the impulses drawn for the enemies hit, in order           *)
(*   off        the indices of the objects whose projection left the       *)
(*              screen (pos.X <= -100)                                     *)

\* the gauge while charging: r.gage += 1, clamped to gageMax
\* variant: the gauge without its upper limit
ClampGage_Unclamped(g) == g

ClampGage(g) == IF g > gageMax THEN gageMax ELSE g

\* variant: any active touch raises the gauge
ChargeInput_Active(r, ts) == AnyTouchesActive(ts)

\* the condition under which a charging tick raises the gauge
ChargeInput(r, ts) ==
    AnyTouchesJustTouched(ts) \/ (r.gage > 0 /\ AnyTouchesActive(ts))

\* variant: the rush starts without the test r.gage > 0
ChargeStep_EmptyRush(r, ts) ==
    LET g == IF ChargeInput(r, ts) THEN ClampGage(r.gage + 1) ELSE r.gage
    IN  [r EXCEPT !.gage = g, !.rush = AllTouchesJustReleased(ts)]

\* the branch !r.rush of update
ChargeStep(r, ts) ==
    LET g == IF ChargeInput(r, ts) THEN ClampGage(r.gage + 1) ELSE r.gage
    IN  [r EXCEPT !.gage = g,
                  !.rush = (g > 0 /\ AllTouchesJustReleased(ts))]

\* variant: the end of a rush that keeps the streak
EndRush_KeepStreak(r) == [r EXCEPT !.rush = FALSE, !.gage = 0]

\* the end of a rush: r.gage <= 0
EndRush(r) == [r EXCEPT !.rush = FALSE, !.gage = 0, !.hitCountInRush = 0]

\* variant: the rush ends only below 0 (r.gage < 0)
RushStep_Late(r) ==
    LET g  == r.gage - 1
        r1 == [r EXCEPT !.gage = g]
    IN  IF g < 0 THEN EndRush(r1) ELSE r1

\* the branch r.rush of update
RushStep(r) ==
    LET g  == r.gage - 1
        r1 == [r EXCEPT !.gage = g,
                        !.effects = IF g > 0 /\ g % splashEvery = 0
                                    THEN Append(r.effects, NewSplashEffect(splashTicks))
                                    ELSE r.effects]
    IN  IF g <= 0 THEN EndRush(r1) ELSE r1

GaugeStep(r, ts) == IF ~r.rush THEN ChargeStep(r, ts) ELSE RushStep(r)

\* variant: the spawn without the test r.ticks > 120
SpawnEnemy_AnyTick(r, rnd) ==
    IF rnd.enemy THEN [r EXCEPT !.enemies = Append(r.enemies, NewEnemy)] ELSE r

\* the enemy spawn: r.ticks > 120 && random.Int()%60 == 0
SpawnEnemy(r, rnd) ==
    IF r.ticks > spawnAfterTicks /\ rnd.enemy
    THEN [r EXCEPT !.enemies = Append(r.enemies, NewEnemy)]
    ELSE r

\* the background spawns: a tree and a cloud at random, a weed on every tick
SpawnObjects(r, rnd) ==
    LET o1 == IF rnd.tree # 0 THEN Append(r.objects, NewObject("tree", rnd.tree))
              ELSE r.objects
        o2 == Append(o1, NewObject("weed", rnd.weed))
        o3 == IF rnd.cloud # 0 THEN Append(o2, NewObject("cloud", rnd.cloud))
              ELSE o2
    IN  [r EXCEPT !.objects = o3]

\* the score of a hit: gain = 10 * hitCountInRush, after the increment
\* variant: the gain taken before the streak is incremented
Gain_BeforeIncrement(hitCount) == gainUnit * (hitCount - 1)

Gain(hitCount) == gainUnit * hitCount

\* a collision while rushing: enemy i is hit with impulse hv
HitEnemy(r, i, hv) ==
    LET n == r.hitCountInRush + 1
    IN  [r EXCEPT !.enemies[i].hvx = hv[1],
                  !.enemies[i].hvy = hv[2],
                  !.enemies[i].hit = TRUE,
                  !.ticksAtHit = r.ticks,
                  !.hitCountInRush = n,
                  !.score = r.score + Gain(n),
                  !.effects = r.effects \o <<NewGainEffect(gainTicks, Gain(n)),
                                              NewSplashEffect(hitSplashTicks)>>]

\* variant: a collision that is lethal also while rushing
Collision_Lethal(r, i, hv) == [r EXCEPT !.gameOver = TRUE]

\* a collision of enemy i: a hit while rushing, game over otherwise
Collision(r, i, hv) ==
    IF r.rush THEN HitEnemy(r, i, hv) ELSE [r EXCEPT !.gameOver = TRUE]

\* variant: the collision test without the test of the hit flag
Collides_Again(e) == CapsulesCollide(e)

\* variant: a test of the position alone, against the rhinoceros' point
Collides_Point(e) == ~e.hit /\ e.x = Px(rhinoX) /\ e.y = Py(rhinoY)

\* the collision test of update for enemy e
Collides(e) == ~e.hit /\ CapsulesCollide(e)

\* the loop over r.enemies from index i on; k impulses of hitV are used up
RECURSIVE EnemyLoop(_, _, _, _)
EnemyLoop(r, i, hitV, k) ==
    IF i > Len(r.enemies) THEN r
    ELSE LET c  == Collides(r.enemies[i])
             r1 == IF c THEN Collision(r, i, IF r.rush THEN hitV[k + 1] ELSE <<0, 0>>)
                   ELSE r
             r2 == [r1 EXCEPT !.enemies[i] = EnemyUpdate(r1.enemies[i], r1.rush)]
         IN  EnemyLoop(r2, i + 1, hitV, IF c /\ r.rush THEN k + 1 ELSE k)

\* variant: the enemies are kept up to and including screenHeight + 100
EnemyOnScreen_Upto(e) == e.y <= Py(screenHeight + fallMarginY)

\* the prune test of the enemies: pos.Y < screenHeight + 100
EnemyOnScreen(e) == e.y < Py(screenHeight + fallMarginY)

PruneEnemies(r) == [r EXCEPT !.enemies = SelectSeq(r.enemies, EnemyOnScreen)]

\* the objects that stay: those whose projected X is still > -100
PruneObjects(r, off) ==
    LET keep == {i \in 1..Len(r.objects) : i \notin off}
        F[i \in 0..Len(r.objects)] ==
            IF i = 0 THEN <<>>
            ELSE IF i \in keep THEN Append(F[i - 1], r.objects[i]) ELSE F[i - 1]
    IN  [r EXCEPT !.objects = F[Len(r.objects)]]

UpdateEffects(r) ==
    [r EXCEPT !.effects = [i \in 1..Len(r.effects) |-> EffectUpdate(r.effects[i])]]

EffectAlive(f) == ~EffectFinished(f)

PruneEffects(r) == [r EXCEPT !.effects = SelectSeq(r.effects, EffectAlive)]

SortObjects(r) == [r EXCEPT !.objects = SortByZ(r.objects)]

\* the body of update past the game-over check
UpdateBody(r, ts, rnd) ==
    LET r1 == [r EXCEPT !.ticks = r.ticks + 1]
        r2 == GaugeStep(r1, ts)
        r3 == SpawnObjects(SpawnEnemy(r2, rnd), rnd)
        r4 == EnemyLoop(r3, 1, rnd.hitV, 0)
        r5 == UpdateEffects(r4)
        r6 == PruneEffects(PruneObjects(PruneEnemies(r5), rnd.off))
    IN  SortObjects(r6)

\* variant: update without the game-over return
RunnerUpdate_Unguarded(r, ts, rnd) == UpdateBody(r, ts, rnd)

\* GameRunner.update
RunnerUpdate(r, ts, rnd) == IF r.gameOver THEN r ELSE UpdateBody(r, ts, rnd)

----------------------------------------------------------------------------
(* Game.newGameRunner (src/main.go:632-654): a runner with its initial     *)
(* background objects, trees, then weeds, then clouds, in creation order.  *)

\* the three loops of newGameRunner; zs holds the world Z drawn for each
Population(zs) ==
    [i \in 1..initTrees |-> NewObject("tree", zs.tree[i])]
    \o [i \in 1..initWeeds |-> NewObject("weed", zs.weed[i])]
    \o [i \in 1..initClouds |-> NewObject("cloud", zs.cloud[i])]

NewGameRunner(mute, zs) ==
    [ticks |-> 0, mute |-> mute, gameOver |-> FALSE, gage |-> 0, rush |-> FALSE,
     hitCountInRush |-> 0, ticksAtHit |-> 0, enemies |-> <<>>,
     objects |-> Population(zs), effects |-> <<>>, score |-> 0]

----------------------------------------------------------------------------
(* touchutil.UpdateTouches: a touch that was just released leaves the      *)
(* list, every other touch is held on or released, and new touches join    *)
(* the end of the list as just touched.  What the fingers do is the        *)
(* player's choice; news is the number of new touches.                     *)

StillDown(t) == t # "JR"

UpdateTouches(ts, news) ==
    LET alive == SelectSeq(ts, StillDown)
    IN  {c \o [i \in 1..news |-> "JT"] : c \in [1..Len(alive) -> {"HD", "JR"}]}

----------------------------------------------------------------------------
(* The environment of a single runner: a player and a random source.       *)
(* env counts what they did: presses (new touches), spawned (enemies),     *)
(* calls (calls of update), and, for the rush under way or last ended,     *)
(* rushFrom (the gauge at the end of the tick that started it) and         *)
(* rushTicks (the update calls made since); started tells that the run     *)
(* loop has called at least once, input is the touch list of the last call *)
(* as UpdateTouches returned it, best is the highest score that a runner   *)
(* of mode Playing has had at the end of an update.  For the enemies, hits *)
(* holds, for each hit enemy of the list, the tick of its hit, and gone    *)
(* the last step of the enemy removed last: where it ended and how many    *)
(* steps it had made since it was hit, the step of the hit's tick          *)
(* included.                                                               *)

\* impulses of a hit, (5 + 10u, -(10 + 20v)) for draws u, v of Float64():
\* the weakest (u = v = 0); one that brings the enemy to exactly
\* screenHeight + 100 on its 35th step (v next to 0.05: -(10 + 20v) is -11
\* in float64); and a strong one (u next to 1, v = 255/256: -29.921875)
LowHitV == <<Px(hitVxMin), -Py(hitVyMin)>>

EdgeHitV == <<Px(hitVxMin), -Py(hitVyMin + 1)>>

HighHitV == <<Px(hitVxMin + hitVxSpan) - 1, -(Py(hitVyMin + hitVySpan) - 5)>>

HitVs == {LowHitV, EdgeHitV, HighHitV}

\* the scenery draws used throughout: trees at Z 100, weeds at Z 30, clouds
\* at Z 20000; on a tick a weed spawns, no tree, no cloud, and once
\* MaxObjects objects are listed the last of them has scrolled off
QuietZs ==
    [tree |-> [i \in 1..initTrees |-> 100],
     weed |-> [i \in 1..initWeeds |-> 30],
     cloud |-> [i \in 1..initClouds |-> 20000]]

QuietRnd(r, enemy, hitV) ==
    [enemy |-> enemy, tree |-> 0, weed |-> 30, cloud |-> 0, hitV |-> hitV,
     off |-> IF Len(r.objects) >= MaxObjects THEN {Len(r.objects)} ELSE {}]

\* the number of un-hit enemies of r that the collision test finds
NumColliding(r) == Cardinality({i \in 1..Len(r.enemies) : Collides(r.enemies[i])})

\* the impulses to draw, out of V, for an update of r with touches ts
HitDraws(r, ts, V) ==
    IF r.gameOver \/ ~GaugeStep(r, ts).rush THEN {<<>>}
    ELSE [1..NumColliding(r) -> V]

\* the update that took r to r2 spawned an enemy: it is the one of age 1
Spawned(r, r2) ==
    ~r.gameOver /\ \E i \in 1..Len(r2.enemies) : r2.enemies[i].ticks = 1

\* an enemy's identity: the runner's tick before the one that spawned it
Born(r, e) == r.ticks - e.ticks

\* the enemies of r that the update to r2 removed from the list
Removed(r, r2) ==
    {i \in 1..Len(r.enemies) :
        /\ ~r.gameOver
        /\ \A j \in 1..Len(r2.enemies) : Born(r2, r2.enemies[j]) # Born(r, r.enemies[i])}

\* the hit ticks of the enemies of r2, given those known before its update
HitsAfter(hits, r2) ==
    LET here(b) == \E j \in 1..Len(r2.enemies) : Born(r2, r2.enemies[j]) = b
        known(b) == \E h \in hits : h.born = b
    IN  {h \in hits : here(h.born)}
        \cup {[born |-> Born(r2, r2.enemies[j]), at |-> r2.ticks] :
                j \in {k \in 1..Len(r2.enemies) :
                         r2.enemies[k].hit /\ ~known(Born(r2, r2.enemies[k]))}}

\* the last step of enemy i of r, which the next update removes
LastStep(hits, r, i) ==
    LET e  == r.enemies[i]
        at == {h.at : h \in {h \in hits : h.born = Born(r, e)}}
    IN  [y     |-> e.y + e.hvy,
         steps |-> IF at = {} THEN 0 ELSE r.ticks + 1 - (CHOOSE t \in at : TRUE) + 1]

EnvInit ==
    [presses |-> 0, spawned |-> 0, calls |-> 0, rushFrom |-> 0, rushTicks |-> 0,
     started |-> FALSE, input |-> <<>>, best |-> 0,
     hits |-> {}, gone |-> [y |-> 0, steps |-> 0]]

\* the bookkeeping of one update call that took r to r2; the rush is
\* followed only when follow is set
EnvStep(e, r, r2, ts, news, enemy, follow) ==
    [presses   |-> e.presses + news,
     spawned   |-> e.spawned + (IF enemy /\ Spawned(r, r2) THEN 1 ELSE 0),
     calls     |-> e.calls + 1,
     rushFrom  |-> IF follow /\ ~r.rush /\ r2.rush THEN r2.gage ELSE e.rushFrom,
     rushTicks |-> IF ~follow THEN e.rushTicks
                   ELSE IF ~r.rush /\ r2.rush THEN 0
                   ELSE IF r.rush THEN e.rushTicks + 1 ELSE e.rushTicks,
     started   |-> TRUE,
     input     |-> ts,
     best      |-> e.best,
     hits      |-> IF follow THEN HitsAfter(e.hits, r2) ELSE e.hits,
     gone      |-> IF follow /\ Removed(r, r2) # {}
                   THEN LastStep(e.hits, r, CHOOSE i \in Removed(r, r2) : TRUE)
                   ELSE e.gone]

InitRunner ==
    /\ runner = NewGameRunner(FALSE, QuietZs)
    /\ touches = <<>>
    /\ mode = "Playing" /\ modeTicks = 0 /\ highScore = 0 /\ sim = <<>>
    /\ playID = 0 /\ log = <<>>
    /\ env = EnvInit

\* one call of update on the runner with the next touches of the player
Tick(news, ts, enemy, hitV, follow) ==
    /\ touches' = ts
    /\ runner' = RunnerUpdate(runner, ts, QuietRnd(runner, enemy, hitV))
    /\ env' = EnvStep(env, runner, runner', ts, news, enemy, follow)
    /\ UNCHANGED <<mode, modeTicks, highScore, sim, playID, log>>

\* a player who holds as long as they like, while no enemy spawns
GaugeTick ==
    /\ runner.ticks < MaxTicks
    /\ \E news \in 0..MaxTouches :
         /\ env.presses + news <= MaxPresses
         /\ \E ts \in UpdateTouches(touches, news) :
              /\ Len(ts) <= MaxTouches
              /\ Tick(news, ts, FALSE, <<>>, FALSE)

SpecGauge == InitRunner /\ [][GaugeTick]_vars

\* a player who taps (the gauge stays within MaxCharge) while up to
\* MaxSpawns enemies spawn within the first SpawnWindow ticks that allow
\* it; update is
\* called up to MaxIdleCalls times on a runner that is game over
RunnerTick ==
    /\ runner.ticks < MaxTicks
    /\ env.calls < runner.ticks + MaxIdleCalls
    /\ \E news \in 0..MaxTouches :
         /\ env.presses + news <= MaxPresses
         /\ \E ts \in UpdateTouches(touches, news) :
              /\ Len(ts) <= MaxTouches
              /\ \E enemy \in BOOLEAN :
                   /\ enemy => /\ env.spawned < MaxSpawns
                               /\ runner.ticks < spawnAfterTicks + SpawnWindow
                               /\ ~runner.gameOver
                   /\ \E hitV \in HitDraws([runner EXCEPT !.ticks = runner.ticks + 1], ts, HitVs) :
                        /\ Tick(news, ts, enemy, hitV, TRUE)
                        /\ runner'.gage <= MaxCharge

SpecRunner == InitRunner /\ [][RunnerTick]_vars

----------------------------------------------------------------------------
(* touchutil.TouchSimulation: the script of the demo player.  Wait(n)      *)
(* passes n ticks with the finger as it is, Touch() and Release() take one *)
(* tick each and report the touch as just touched and as just released; a  *)
(* script that ran out reports no touch.                                   *)

SimWait(n) == [op |-> "wait", n |-> n]

SimTouch == [op |-> "touch", n |-> 0]

SimRelease == [op |-> "release", n |-> 0]

\* Game.generateTouchSimulation: three rounds of wait, touch, wait, release;
\* d holds the six draws random.Int()%60, random.Int()%30, ...
GenerateTouchSimulation(d) ==
    [down  |-> FALSE,
     steps |-> <<SimWait(simWaitMin + d[1]), SimTouch, SimWait(simHoldMin + d[2]), SimRelease,
                 SimWait(simWaitMin + d[3]), SimTouch, SimWait(simHoldMin + d[4]), SimRelease,
                 SimWait(simWaitMin + d[5]), SimTouch, SimWait(simHoldMin + d[6]), SimRelease>>]

\* the touches TouchSimulation.Next reports
SimTouches(sm) ==
    IF sm.steps = <<>> THEN <<>>
    ELSE LET h == Head(sm.steps)
         IN  IF h.op = "touch" THEN <<"JT">>
             ELSE IF h.op = "release" THEN <<"JR">>
             ELSE IF sm.down THEN <<"HD">> ELSE <<>>

\* the simulation after TouchSimulation.Next
SimAdvance(sm) ==
    IF sm.steps = <<>> THEN sm
    ELSE LET h == Head(sm.steps)
         IN  IF h.op = "touch" THEN [down |-> TRUE, steps |-> Tail(sm.steps)]
             ELSE IF h.op = "release" THEN [down |-> FALSE, steps |-> Tail(sm.steps)]
             ELSE IF h.n > 1
                  THEN [sm EXCEPT !.steps = <<SimWait(h.n - 1)>> \o Tail(sm.steps)]
                  ELSE [sm EXCEPT !.steps = Tail(sm.steps)]

\* the draws the random source gives a script: the shortest waits, or, for
\* the first script of the process, also the longest third wait
ShortDraws == <<0, 0, 0, 0, 0, 0>>

SimDraws == {ShortDraws, <<0, 0, 0, 0, simWaitSpan - 1, 0>>}

----------------------------------------------------------------------------
(* Game (src/main.go:507-567, 616-673).                                    *)

Event(ev, play) == [ev |-> ev, play |-> play]

\* Game.setNextMode: the mode and its tick counter
SetNextMode(m) == /\ mode' = m
                  /\ modeTicks' = 0

\* variant: the high score follows the score of the current play
MaxScore_Last(hs, score) == score

\* the high score kept by the Playing branch
MaxScore(hs, score) == IF score > hs THEN score ELSE hs

\* variant: a demo runner that is game over ends the game
TitleMode_DemoOver(ts, demoOver) ==
    IF AnyTouchesJustTouched(ts) THEN "Playing"
    ELSE IF demoOver THEN "GameOver" ELSE "Title"

\* the mode after the Title branch: Playing on a real touch just touched; a
\* demo runner that is game over was replaced and changes no mode
TitleMode(ts, demoOver) == IF AnyTouchesJustTouched(ts) THEN "Playing" ELSE "Title"

\* the mode after the Playing branch
PlayingMode(r) == IF r.gameOver THEN "GameOver" ELSE "Playing"

\* variant: the grace period one tick short (g.modeTicks >= 60)
RestartInput_Early(mt, ts) == mt >= graceTicks /\ AnyTouchesJustTouched(ts)

\* the condition of the GameOver branch
RestartInput(mt, ts) == mt > graceTicks /\ AnyTouchesJustTouched(ts)

\* variant: initialize that keeps the play ID
Initialize_SamePlay(d) ==
    /\ playID' = playID
    /\ log' = Append(log, Event("Initialize", playID))
    /\ touches' = <<>>
    /\ sim' = GenerateTouchSimulation(d)
    /\ runner' = NewGameRunner(TRUE, QuietZs)
    /\ SetNextMode("Title")

\* Game.initialize: a new play ID, the Initialize event, no touches, a new
\* script, a muted demo runner, Title.  The play ID is a random UUID, here
\* the next number; the branch for a failed uuid.NewRandom is left out, the
\* system's random source does not fail.
Initialize(d) ==
    /\ playID' = playID + 1
    /\ log' = Append(log, Event("Initialize", playID + 1))
    /\ touches' = <<>>
    /\ sim' = GenerateTouchSimulation(d)
    /\ runner' = NewGameRunner(TRUE, QuietZs)
    /\ SetNextMode("Title")

\* the state main hands to the run loop: Game{} after initialize
Init ==
    /\ runner = NewGameRunner(TRUE, QuietZs)
    /\ touches = <<>>
    /\ mode = "Title"
    /\ modeTicks = 0
    /\ highScore = 0
    /\ sim \in {GenerateTouchSimulation(d) : d \in SimDraws}
    /\ playID = 1
    /\ log = <<Event("Initialize", 1)>>
    /\ env = EnvInit

\* variant: a demo runner that is game over stays
DemoRunner_Stuck(r1) == r1

\* the demo runner after its update: one that is game over is replaced
DemoRunner(r1) == IF r1.gameOver THEN NewGameRunner(TRUE, QuietZs) ELSE r1

\* variant: the play goes on with the demo runner, unmuted
StartRunner_Demo(demo) == [demo EXCEPT !.mute = FALSE]

\* the runner of a play that starts: g.newGameRunner(false) replaces the demo
StartRunner(demo) == NewGameRunner(FALSE, QuietZs)

\* the real touches of the next tick: the player touches anew at most
\* GamePresses times per visit of a mode, and in Title only on the first of
\* every StartEvery ticks
PlayerTouches ==
    UNION {{ts \in UpdateTouches(touches, news) : Len(ts) <= MaxTouches} :
           news \in 0..(IF mode = "Title" /\ modeTicks % StartEvery # 0
                        THEN 0 ELSE GamePresses - env.presses)}

News(ts) == Cardinality({i \in 1..Len(ts) : ts[i] = "JT"})

\* the enemy draws the random source may give runner r: a draw may hit on
\* every tick up to the first MaxSpawns ticks that allow a spawn, until
\* MaxSpawns enemies have spawned
EnemyDraws(r) ==
    IF /\ env.spawned < MaxSpawns
       /\ r.ticks < spawnAfterTicks + MaxSpawns
    THEN BOOLEAN ELSE {FALSE}

\* the bookkeeping of a score reached by the runner of mode Playing
Best(e, score) == [e EXCEPT !.best = IF score > e.best THEN score ELSE e.best]

GameEnv(ts, presses, spawned) ==
    [env EXCEPT !.presses = presses, !.spawned = spawned, !.started = TRUE,
                !.input = ts]

\* Game.Update in mode Title
UpdateTitle ==
    /\ mode = "Title"
    /\ modeTicks < MaxTicks
    /\ \E ts \in PlayerTouches, enemy \in EnemyDraws(runner), d \in {ShortDraws} :
         \E hitV \in HitDraws([runner EXCEPT !.ticks = runner.ticks + 1], SimTouches(sim), {LowHitV}) :
           LET r1   == RunnerUpdate(runner, SimTouches(sim), QuietRnd(runner, enemy, hitV))
               demo == DemoRunner(r1)
               sm   == IF r1.gameOver THEN GenerateTouchSimulation(d) ELSE SimAdvance(sim)
               sp   == IF r1.gameOver THEN 0
                       ELSE env.spawned + (IF enemy /\ Spawned(runner, r1) THEN 1 ELSE 0)
           IN  /\ touches' = ts
               /\ sim' = sm
               /\ highScore' = highScore
               /\ playID' = playID
               /\ IF TitleMode(ts, r1.gameOver) # "Title"
                  THEN /\ log' = Append(log, Event("StartGame", playID))
                       /\ runner' = StartRunner(demo)
                       /\ SetNextMode(TitleMode(ts, r1.gameOver))
                       /\ env' = GameEnv(ts, 0, 0)
                  ELSE /\ log' = log
                       /\ runner' = demo
                       /\ mode' = mode
                       /\ modeTicks' = modeTicks + 1
                       /\ env' = GameEnv(ts, env.presses + News(ts), sp)

\* Game.Update in mode Playing
UpdatePlaying ==
    /\ mode = "Playing"
    /\ modeTicks < MaxTicks
    /\ \E ts \in PlayerTouches, enemy \in EnemyDraws(runner) :
         \E hitV \in HitDraws([runner EXCEPT !.ticks = runner.ticks + 1], ts, {LowHitV}) :
           LET r1 == RunnerUpdate(runner, ts, QuietRnd(runner, enemy, hitV))
           IN  /\ r1.gage <= GameCharge
               /\ touches' = ts
               /\ runner' = r1
               /\ highScore' = MaxScore(highScore, r1.score)
               /\ UNCHANGED <<sim, playID>>
               /\ IF PlayingMode(r1) # "Playing"
                  THEN /\ log' = Append(log, Event("GameOver", playID))
                       /\ SetNextMode(PlayingMode(r1))
                       /\ env' = Best(GameEnv(ts, 0, 0), r1.score)
                  ELSE /\ log' = log
                       /\ mode' = mode
                       /\ modeTicks' = modeTicks + 1
                       /\ env' = Best(GameEnv(ts, env.presses + News(ts),
                                              env.spawned + (IF enemy /\ Spawned(runner, r1)
                                                             THEN 1 ELSE 0)),
                                      r1.score)

\* Game.Update in mode GameOver; the player restarts at most MaxPlays - 1 times
UpdateGameOver ==
    /\ mode = "GameOver"
    /\ modeTicks < graceTicks + MaxIdleCalls
    /\ \E ts \in PlayerTouches, d \in {ShortDraws} :
         IF RestartInput(modeTicks + 1, ts)
         THEN /\ playID < MaxPlays
              /\ Initialize(d)
              /\ highScore' = highScore
              /\ env' = GameEnv(ts, 0, 0)
         ELSE /\ touches' = ts
              /\ modeTicks' = modeTicks + 1
              /\ env' = GameEnv(ts, env.presses + News(ts), env.spawned)
              /\ UNCHANGED <<runner, mode, highScore, sim, playID, log>>

Next == UpdateTitle \/ UpdatePlaying \/ UpdateGameOver

Spec == Init /\ [][Next]_vars


(***************************************************************************)
(* Properties of the gauge and of the rush (GameRunner.update)             *)
(***************************************************************************)

\* a step that called update
UpdateCalled == env'.calls = env.calls + 1

\* the un-hit enemies of r that collide with the rhinoceros
Lethal(r) == {i \in 1..Len(r.enemies) : ~r.enemies[i].hit /\ CapsulesCollide(r.enemies[i])}

\* C1: at the end of every tick the gauge is an integer between 0 and
\* gageMax = 300: charging never takes it above 300 and rushing never takes
\* it below 0.
C1_GageInRange == runner.gage \in 0..300

\* a full gauge on a later tick than the 300th, still charged by a touch
C1_Witness ==
    /\ runner.gage = 300 /\ ~runner.rush
    /\ runner.ticks > 300
    /\ AnyTouchesActive(touches)

\* C2: a rush that starts with gauge g at the end of its first tick takes
\* exactly g further calls of update; each of them lowers the gauge by one,
\* the runner is rushing with a gauge of at least 1 until the last of them
\* ends the rush at gauge 0, and the runner is never game over meanwhile.
C2_RushLasts ==
    /\ runner.rush => /\ runner.gage >= 1
                      /\ ~runner.gameOver
                      /\ runner.gage + env.rushTicks = env.rushFrom
    /\ ~runner.rush /\ env.rushFrom > 0 => /\ env.rushTicks = env.rushFrom
                                           /\ env.rushFrom >= 1

\* a rush of MaxCharge ticks that hit an enemy and has ended
C2_Witness ==
    /\ ~runner.rush /\ runner.gage = 0
    /\ env.rushFrom = MaxCharge /\ env.rushTicks = MaxCharge
    /\ runner.ticksAtHit > 0

\* C3: an update of a runner that is not game over leaves it game over
\* exactly when an enemy that was not hit collides with the rhinoceros on
\* that tick while the runner, after the gauge step, is not rushing.
C3_GameOverIffLethal ==
    [][UpdateCalled /\ ~runner.gameOver =>
         (runner'.gameOver <=> (~runner'.rush /\ Lethal(runner) # {}))]_vars

\* a game over after a rush that hit an enemy
C3_Witness == runner.gameOver /\ runner.score > 0 /\ runner.ticksAtHit > 0

\* C4: the score never decreases; an update that hits n enemies while
\* rushing with streak h raises the streak to h + n and the score by
\* 10 * (h + 1) + ... + 10 * (h + n), and no other update changes the score.
C4_ScoreByRushHits ==
    [][UpdateCalled =>
         LET n == IF runner.gameOver \/ ~runner'.rush THEN 0
                  ELSE Cardinality(Lethal(runner))
             h == runner.hitCountInRush
         IN  /\ runner'.score >= runner.score
             /\ runner'.score = runner.score + 10 * (n * h) + 10 * ((n * (n + 1)) \div 2)
             /\ n > 0 => runner'.hitCountInRush = h + n]_vars

\* two enemies hit on one tick of a rush: 10 and 20, shown together
C4_Witness ==
    /\ runner.rush /\ runner.hitCountInRush = 2 /\ runner.score = 30
    /\ \E i, j \in 1..Len(runner.effects) :
         /\ runner.effects[i].kind = "gain" /\ runner.effects[i].gain = 10
         /\ runner.effects[j].kind = "gain" /\ runner.effects[j].gain = 20
         /\ runner.effects[i].ttl = runner.effects[j].ttl

\* C5: at the end of every tick a runner that is not rushing has a streak
\* of 0, so that the first hit of every rush scores 10.
C5_StreakOnlyInRush == ~runner.rush => runner.hitCountInRush = 0

\* the first hit of a second rush, after a first rush with one hit
C5_Witness == runner.rush /\ runner.hitCountInRush = 1 /\ runner.score = 20

\* C8: update on a runner that is game over changes no field of it.
C8_GameOverFrozen == [][UpdateCalled /\ runner.gameOver => runner' = runner]_vars

\* update was called on a runner that is game over
C8_Witness == runner.gameOver /\ env.calls > runner.ticks

\* the gauge after one more tick of charging
Charged(g) == IF g + 1 > 300 THEN 300 ELSE g + 1

\* C10 as stated: while charging, every update with an active touch raises
\* the gauge by one (capped), a held touch at gauge 0 included.
C10_ChargeOnActive ==
    [][UpdateCalled /\ ~runner.rush /\ ~runner.gameOver /\ AnyTouchesActive(touches') =>
         runner'.gage = Charged(runner.gage)]_vars

\* C10: while charging, an update raises the gauge by one (capped) exactly
\* when a touch was just touched or the gauge is above 0 and a touch is
\* active; a touch held since before the tick leaves a gauge of 0 at 0.
C10_ChargeOnTouch ==
    [][UpdateCalled /\ ~runner.rush /\ ~runner.gameOver =>
         runner'.gage = IF \/ AnyTouchesJustTouched(touches')
                           \/ runner.gage > 0 /\ AnyTouchesActive(touches')
                        THEN Charged(runner.gage) ELSE runner.gage]_vars

\* a gauge of 0 after the fourth tick, under a touch that began on the
\* third, the tick that ended a rush of one tick: the fourth tick charged
C10_Witness ==
    /\ runner.gage = 0 /\ ~runner.rush
    /\ runner.ticks = 4
    /\ touches = <<"HD">>

(***************************************************************************)
(* Properties of the modes (Game.Update)                                   *)
(***************************************************************************)

\* runner r is as initialize leaves it: muted, nothing done yet
FreshDemo(r) ==
    /\ r.mute /\ ~r.gameOver /\ ~r.rush
    /\ r.ticks = 0 /\ r.gage = 0 /\ r.score = 0 /\ r.hitCountInRush = 0
    /\ r.enemies = <<>> /\ r.effects = <<>>

\* C6: the mode changes in three ways only: from Title to Playing on a tick
\* whose real touches hold one just touched, from Playing to GameOver on a
\* tick on which the real runner becomes game over, and from GameOver to
\* Title through initialize (new play ID, Initialize event, touches
\* cleared, muted runner).  Title never changes to GameOver.
C6_ModeMachine ==
    [][mode' # mode =>
         \/ /\ mode = "Title" /\ mode' = "Playing"
            /\ AnyTouchesJustTouched(env'.input)
         \/ /\ mode = "Playing" /\ mode' = "GameOver"
            /\ ~runner.mute /\ ~runner.gameOver /\ runner'.gameOver
         \/ /\ mode = "GameOver" /\ mode' = "Title"
            /\ playID' = playID + 1
            /\ log' = Append(log, [ev |-> "Initialize", play |-> playID'])
            /\ touches' = <<>>
            /\ FreshDemo(runner')]_vars

\* back in Title after one play: every one of the three changes was made
C6_Witness ==
    /\ mode = "Title" /\ playID = 2
    /\ Len(log) = 4 /\ log[2].ev = "StartGame" /\ log[3].ev = "GameOver"

\* C7: entering GameOver sets modeTicks to 0; a touch just touched on one
\* of the first 60 calls of Update in GameOver leaves the mode and the
\* runner as they are, and on a later call it leaves the game in Title with
\* modeTicks 0, a new play ID and a fresh muted demo runner.
C7_GraceThenRestart ==
    [][/\ mode # "GameOver" /\ mode' = "GameOver" => modeTicks' = 0
       /\ mode = "GameOver" /\ AnyTouchesJustTouched(env'.input) =>
            IF modeTicks < 60
            THEN mode' = "GameOver" /\ runner' = runner /\ modeTicks' = modeTicks + 1
            ELSE /\ mode' = "Title" /\ modeTicks' = 0
                 /\ playID' = playID + 1
                 /\ FreshDemo(runner')]_vars

\* the game right after a touch in GameOver re-initialized it
C7_Witness ==
    /\ mode = "Title" /\ modeTicks = 0 /\ playID = 2
    /\ AnyTouchesJustTouched(env.input)
    /\ FreshDemo(runner)

\* the objects in the order of descending Z
SortedByZ(objs) == \A i \in 1..(Len(objs) - 1) : objs[i].z >= objs[i + 1].z

\* C9 as stated: after every Update the objects of the runner that Draw
\* renders next are in the order of descending Z.
C9_DrawnSorted == env.started => SortedByZ(runner.objects)

(***************************************************************************)
(* Further properties of the runner                                        *)
(***************************************************************************)

\* C11: a rush starts only on a charging tick whose touches are all just
\* released and whose gauge is above 0; a runner that is rushing at the end
\* of a tick has a gauge of at least 1; and a tick either charges (the
\* gauge stays or grows by one) or rushes (the gauge falls by one).
C11_RushStart ==
    [][UpdateCalled /\ ~runner.gameOver =>
         /\ runner'.rush => runner'.gage >= 1
         /\ ~runner.rush /\ runner'.rush =>
              /\ AllTouchesJustReleased(touches')
              /\ runner.gage > 0 /\ runner'.gage = runner.gage
         /\ IF runner.rush
            THEN runner'.gage = runner.gage - 1
            ELSE runner'.gage \in {runner.gage, runner.gage + 1}]_vars

\* a rush that two fingers, lifted together on the third tick, started
\* with the gauge of 2 they had charged
C11_Witness ==
    /\ runner.rush /\ runner.gage = 2 /\ runner.ticks = 3
    /\ touches = <<"JR", "JR">>

(***************************************************************************)
(* Further properties of the game                                          *)
(***************************************************************************)

\* C12: over every Update, initialize included, highScore never decreases
\* and equals the highest score a runner of mode Playing has reached so far
\* (0 when none has); an Update in Title leaves it alone whatever the demo
\* runner scores; in Playing and GameOver it is at least the runner's score.
C12_HighScoreKept ==
    [][/\ highScore' >= highScore
       /\ highScore' = env'.best
       /\ mode = "Title" => highScore' = highScore
       /\ mode' \in {"Playing", "GameOver"} => highScore' >= runner'.score]_vars

\* the second play begins under the high score of the first
C12_Witness ==
    /\ mode = "Playing" /\ playID = 2
    /\ highScore = 10 /\ runner.score = 0 /\ runner.ticks > 0

C14_NoTunnel ==
    ~runner.gameOver =>
        \A i \in 1..Len(runner.enemies) :
            ~runner.enemies[i].hit => runner.enemies[i].x >= 2 * (170 - 18)

\* one enemy was hit by a rush, and the next, not hit, has stepped into
\* the range on a tick of that rush (its X is off the 4-pixel grid)
C14_Witness ==
    /\ ~runner.gameOver
    /\ \E i, j \in 1..Len(runner.enemies) :
         /\ runner.enemies[i].hit
         /\ ~runner.enemies[j].hit
         /\ runner.enemies[j].x <= 2 * (170 + 18)
         /\ runner.enemies[j].x % 8 # 4

\* C15: a runner, demo or real, has no enemy at the end of each of its
\* first 120 ticks, and so is not game over and has its score of 0 there;
\* an enemy spawns un-hit at (screenWidth + 50, rhinoY) = (690, 370): after
\* the first step of its spawning tick that is its prevPos, and it is one
\* step left of it.
C15_SpawnAfter120 ==
    /\ runner.ticks <= 120 =>
         runner.enemies = <<>> /\ ~runner.gameOver /\ runner.score = 0
    /\ \A i \in 1..Len(runner.enemies) :
         runner.enemies[i].ticks = 1 =>
             /\ ~runner.enemies[i].hit
             /\ runner.enemies[i].px = 2 * 690 /\ runner.enemies[i].py = 64 * 370
             /\ runner.enemies[i].y = 64 * 370
             /\ runner.enemies[i].x \in {2 * 690 - 8, 2 * 690 - 15}

\* the demo runner's first enemy, spawned on tick 121, the first that
\* allows it
C15_Witness ==
    /\ mode = "Title" /\ runner.mute
    /\ runner.ticks = 121
    /\ Len(runner.enemies) = 1 /\ runner.enemies[1].ticks = 1

\* enemy i of the runner is still in the list after the step
Kept(i) ==
    \E j \in 1..Len(runner'.enemies) :
        Born(runner', runner'.enemies[j]) = Born(runner, runner.enemies[i])

\* the Y at which enemy i of the runner, hit before this tick, ends the tick
EndY(i) == runner.enemies[i].y + runner.enemies[i].hvy

\* C16 as stated: an update removes an enemy only if its Y at the end of
\* the tick exceeds screenHeight + 100 = 580 and keeps it whenever it does
\* not; an enemy that is not hit is never removed.
C16_RemovedBeyond580 ==
    [][UpdateCalled /\ ~runner.gameOver =>
         \A i \in 1..Len(runner.enemies) :
             IF ~runner.enemies[i].hit THEN Kept(i)
             ELSE /\ ~Kept(i) => EndY(i) > 64 * 580
                  /\ EndY(i) <= 64 * 580 => Kept(i)]_vars

\* C16: an update removes an enemy exactly when its Y at the end of the
\* tick has reached screenHeight + 100 = 580 (Y >= 580) and keeps it while
\* Y < 580; an enemy that is not hit is never removed.
C16_RemovedFrom580 ==
    [][UpdateCalled /\ ~runner.gameOver =>
         \A i \in 1..Len(runner.enemies) :
             IF ~runner.enemies[i].hit THEN Kept(i)
             ELSE Kept(i) <=> EndY(i) < 64 * 580]_vars

\* an enemy was removed on the tick that brought it to exactly Y = 580
C16_Witness == env.gone.y = 64 * 580 /\ env.gone.steps = 35

\* the steps enemy i of the runner has made since it was hit, the step of
\* the hit's tick included; 0 when no hit of it is known
StepsSinceHit(i) ==
    LET at == {h.at : h \in {h \in env.hits : h.born = Born(runner, runner.enemies[i])}}
    IN  IF at = {} THEN 0 ELSE runner.ticks - (CHOOSE t \in at : TRUE) + 1

\* C17: a hit enemy, whose impulse has a vertical part between -30 and
\* -10 that grows by 1 on each tick, is in the list at the end of at most
\* 67 ticks, the tick of the hit included, and leaves it on its 68th step
\* at the latest, as long as the runner is updated.
C17_HitEnemyLeaves ==
    /\ env.gone.steps <= 68
    /\ \A i \in 1..Len(runner.enemies) :
         runner.enemies[i].hit =>
             /\ StepsSinceHit(i) \in 1..67
             /\ runner.enemies[i].hvy - 64 * StepsSinceHit(i) <= -(64 * 10)
             /\ runner.enemies[i].hvy - 64 * StepsSinceHit(i) > -(64 * 30)

\* an enemy hit with a strong impulse left the list on its 68th step
C17_Witness == env.gone.steps = 68 /\ env.gone.y >= 64 * 580

\* C18: on the tick that changes the mode from Title to Playing the runner
\* is a fresh one, not muted: ticks, gauge, score and streak 0, not
\* rushing, not game over, no enemies, no effects; nothing of the demo
\* runner is left in it.
C18_FreshPlay ==
    [][mode = "Title" /\ mode' = "Playing" =>
         /\ ~runner'.mute /\ ~runner'.gameOver /\ ~runner'.rush
         /\ runner'.ticks = 0 /\ runner'.gage = 0
         /\ runner'.score = 0 /\ runner'.hitCountInRush = 0
         /\ runner'.ticksAtHit = 0
         /\ runner'.enemies = <<>> /\ runner'.effects = <<>>]_vars

\* a play that started after the demo had played its whole script
C18_Witness ==
    /\ mode = "Playing" /\ modeTicks = 0
    /\ runner.ticks = 0 /\ ~runner.mute
    /\ sim.steps = <<>>
    /\ log[Len(log)].ev = "StartGame"

\* the demo runner's update of this tick ends it: an enemy that is not hit
\* collides while the runner, after its gauge step, is not rushing
DemoDies == Lethal(runner) # {} /\ ~GaugeStep(runner, SimTouches(sim)).rush

\* C19: after every Update the mode is GameOver exactly when the runner is
\* game over; an Update that stays in Title and in which the demo runner
\* becomes game over leaves a fresh muted demo runner and a new, whole
\* touch script, and every other one advances the demo runner by a tick.
C19_ModeAgreesWithRunner ==
    [][/\ (mode' = "GameOver") <=> runner'.gameOver
       /\ mode = "Title" /\ mode' = "Title" =>
            IF DemoDies
            THEN FreshDemo(runner') /\ ~sim'.down /\ Len(sim'.steps) = 12
            ELSE runner'.ticks = runner.ticks + 1 /\ runner'.mute]_vars

\* the title screen after the demo runner was replaced: a fresh runner and
\* a whole script long after the game began, with no play in between
C19_Witness ==
    /\ mode = "Title" /\ playID = 1 /\ modeTicks > 120
    /\ FreshDemo(runner)
    /\ ~sim.down /\ Len(sim.steps) = 12

\* enemy j of the runner after the step was hit before the step
HitBefore(j) ==
    \E i \in 1..Len(runner.enemies) :
        /\ runner.enemies[i].hit
        /\ Born(runner, runner.enemies[i]) = Born(runner', runner'.enemies[j])

\* the enemies that the step has hit
NewlyHit == {j \in 1..Len(runner'.enemies) : runner'.enemies[j].hit /\ ~HitBefore(j)}

\* C20: an enemy that is hit stays hit as long as it is in the list; an
\* enemy becomes hit only on a tick on which the runner is rushing; the
\* streak and the score grow by the enemies newly hit on the tick and by
\* nothing else, so no enemy scores twice; and a game over comes from an
\* enemy that was not hit.
C20_HitOnce ==
    [][UpdateCalled /\ ~runner.gameOver =>
         LET n == Cardinality(NewlyHit)
             h == runner.hitCountInRush
         IN  /\ \A j \in 1..Len(runner'.enemies) : HitBefore(j) => runner'.enemies[j].hit
             /\ n > 0 => runner'.rush /\ runner'.ticksAtHit = runner'.ticks
             /\ runner'.rush => runner'.hitCountInRush = h + n
             /\ runner'.score = runner.score + 10 * (n * h) + 10 * ((n * (n + 1)) \div 2)
             /\ runner'.gameOver => Lethal(runner) # {}]_vars

\* two enemies, hit on different ticks and each scored once, are falling
\* while the runner is rushing
C20_Witness ==
    /\ runner.rush /\ runner.score \in {20, 30}
    /\ \E a, b \in env.hits : a.at < b.at /\ b.at < runner.ticks

====
